---- MODULE Spec2Model ----
(***************************************************************************)
(* Model of the receipt-extraction pipeline                                *)
(* (src/src/scripts/receipt_processor.py) and of the store-name            *)
(* normaliser with the import path that commits its result                 *)
(* (src/store_utils.py, src/import_receipts.py).                           *)
(*                                                                         *)
(* A Python str is a sequence of atoms.  For the pipeline texts an atom    *)
(* is a whitespace character, the three-backtick fence, a word or one      *)
(* JSON document of the catalogue JsonDocs; str.strip, str.startswith,     *)
(* str.split and json.loads are computed on these sequences.               *)
(***************************************************************************)
EXTENDS Integers, Sequences, FiniteSets, TLC

\* ------------------------------------------------------------------ bounds
MaxImages == 3
MaxReceipts == 2
MaxKnownStores == 6
MaxImporters == 2
MaxDbCalls == 3
MaxRuns == 2
MaxRunImages == 2

\* ------------------------------------------------------- Optional[...]
None == <<>>
Some(x) == <<x>>
IsSet(o) == o # None

\* ------------------------------------------------------------ str helpers
SP == " "
NL == "\n"
\* the three-backtick markdown fence, one atom
FENCE == "<fence>"
JSONWORD == "json"
VERIFIEDWORD == "VERIFIED:"

Whitespace == {SP, NL}

RECURSIVE lstrip(_)
lstrip(s) ==
    IF s # <<>> /\ Head(s) \in Whitespace THEN lstrip(Tail(s)) ELSE s

RECURSIVE rstrip(_)
rstrip(s) ==
    IF s # <<>> /\ s[Len(s)] \in Whitespace
    THEN rstrip(SubSeq(s, 1, Len(s) - 1))
    ELSE s

\* str.strip()
strip(s) == rstrip(lstrip(s))

\* str.startswith(prefix)
startswith(s, prefix) ==
    /\ Len(s) >= Len(prefix)
    /\ SubSeq(s, 1, Len(prefix)) = prefix

\* str.endswith(suffix)
endswith(s, suffix) ==
    /\ Len(s) >= Len(suffix)
    /\ SubSeq(s, Len(s) - Len(suffix) + 1, Len(s)) = suffix

\* s[n:]
DropPrefix(s, n) == SubSeq(s, n + 1, Len(s))

\* str.split(sep) for a one-atom separator: the list of the pieces
RECURSIVE split(_, _)
split(s, sep) ==
    IF \A i \in 1..Len(s) : s[i] # sep
    THEN <<s>>
    ELSE LET k == CHOOSE i \in 1..Len(s) :
                      s[i] = sep /\ \A j \in 1..(i - 1) : s[j] # sep
         IN  <<SubSeq(s, 1, k - 1)>> \o split(SubSeq(s, k + 1, Len(s)), sep)

\* --------------------------------------------------------------- exceptions
\* The outcome of evaluating a block of Python: a value, or a raised exception.
Returned(v) == [raised |-> FALSE, type |-> "", msg |-> "", value |-> v]
Raised(t, m) == [raised |-> TRUE, type |-> t, msg |-> m, value |-> None]

\* The exception classes the modelled code can raise, with their base classes.
Bases(t) ==
    CASE t = "JSONDecodeError" -> {"JSONDecodeError", "ValueError", "Exception"}
      [] t = "ValueError"      -> {"ValueError", "Exception"}
      [] t = "AttributeError"  -> {"AttributeError", "Exception"}
      [] t = "OSError"         -> {"OSError", "Exception"}
      [] t = "APIError"        -> {"APIError", "Exception"}
      [] OTHER                 -> {t}

\* `except cls:` catches the outcome o
Catches(cls, o) == o.raised /\ cls \in Bases(o.type)

\* ------------------------------------------------------------ JSON documents
\* A JSON scalar as written in the text: a number literal is its digits as
\* an integer mantissa m and the count s of digits after the decimal point
\* (10.50 is m = 1050, s = 2; 12 is m = 12, s = 0).
JMissing == [t |-> "missing", m |-> 0, s |-> 0]
JNull == [t |-> "null", m |-> 0, s |-> 0]
JStr == [t |-> "string", m |-> 0, s |-> 0]
JTrue == [t |-> "true", m |-> 1, s |-> 0]
JNum(m, s) == [t |-> "number", m |-> m, s |-> s]

JItem(q, w) == [quantity |-> q, weight |-> w]
JObject(totals, subtotal, total, items) ==
    [top |-> "object", totals |-> totals, subtotal |-> subtotal,
     total |-> total, items |-> items]
JOther(top) ==
    [top |-> top, totals |-> "missing", subtotal |-> JMissing,
     total |-> JMissing, items |-> <<>>]

\* The documents the structuring backend can answer with, by atom.
JsonDocs ==
    [d \in {"{each}", "{pounds}", "{ints}", "{both}", "{neither}",
            "{subtotal:str}", "{total:null}", "{total:true}",
            "{subtotal:missing}", "{no totals}", "{totals:null}",
            "{totals:str}", "[array]", "null", "42"} |->
       CASE d = "{each}" ->
              JObject("object", JNum(1050, 2), JNum(1137, 2),
                      <<JItem(JNum(2, 0), JNull)>>)
         [] d = "{pounds}" ->
              JObject("object", JNum(399, 2), JNum(4, 0),
                      <<JItem(JNull, JNum(125, 2)), JItem(JNum(1, 0), JNull)>>)
         [] d = "{ints}" ->
              JObject("object", JNum(10, 0), JNum(100, 1), <<>>)
         [] d = "{both}" ->
              JObject("object", JNum(500, 2), JNum(545, 2),
                      <<JItem(JNum(1, 0), JNum(125, 2))>>)
         [] d = "{neither}" ->
              JObject("object", JNum(500, 2), JNum(545, 2),
                      <<JItem(JNum(1, 0), JNull), JItem(JNull, JNull)>>)
         [] d = "{subtotal:str}" ->
              JObject("object", JStr, JNum(1137, 2), <<>>)
         [] d = "{total:null}" ->
              JObject("object", JNum(1050, 2), JNull, <<>>)
         [] d = "{total:true}" ->
              JObject("object", JNum(1050, 2), JTrue, <<>>)
         [] d = "{subtotal:missing}" ->
              JObject("object", JMissing, JNum(1137, 2), <<>>)
         [] d = "{no totals}" ->
              JObject("missing", JMissing, JMissing, <<>>)
         [] d = "{totals:null}" ->
              JObject("null", JMissing, JMissing, <<>>)
         [] d = "{totals:str}" ->
              JObject("string", JMissing, JMissing, <<>>)
         [] d = "[array]" -> JOther("array")
         [] d = "null" -> JOther("null")
         [] d = "42" -> JOther("number")]

\* A Python value produced by the decoder: int and float keep their value as
\* m / 10^s, a float in shortest form (no trailing zero in the fraction).
PyAbsent == [py |-> "absent", m |-> 0, s |-> 0]
PyNone == [py |-> "NoneType", m |-> 0, s |-> 0]

RECURSIVE PyFloat(_, _)
PyFloat(m, s) ==
    IF s > 0 /\ m % 10 = 0 THEN PyFloat(m \div 10, s - 1)
    ELSE [py |-> "float", m |-> m, s |-> s]

\* variant: a number with a fraction is cut to its integer part
PyScalar_truncated(j) ==
    CASE j.t = "missing" -> PyAbsent
      [] j.t = "null"    -> PyNone
      [] j.t = "string"  -> [py |-> "str", m |-> 0, s |-> 0]
      [] j.t = "true"    -> [py |-> "bool", m |-> 1, s |-> 0]
      [] j.t = "number"  ->
            IF j.s = 0 THEN [py |-> "int", m |-> j.m, s |-> 0]
            ELSE [py |-> "float", m |-> j.m \div (10 ^ j.s), s |-> 0]

\* json decoding of one scalar
PyScalar(j) ==
    CASE j.t = "missing" -> PyAbsent
      [] j.t = "null"    -> PyNone
      [] j.t = "string"  -> [py |-> "str", m |-> 0, s |-> 0]
      [] j.t = "true"    -> [py |-> "bool", m |-> 1, s |-> 0]
      [] j.t = "number"  ->
            IF j.s = 0 THEN [py |-> "int", m |-> j.m, s |-> 0]
            ELSE PyFloat(j.m, j.s)

PyTop(top) ==
    CASE top = "object" -> "dict"
      [] top = "array"  -> "list"
      [] top = "null"   -> "NoneType"
      [] top = "number" -> "int"
      [] top = "string" -> "str"
      [] top = "missing" -> "absent"

PyDocument(j) ==
    [top |-> PyTop(j.top), totals |-> PyTop(j.totals),
     subtotal |-> PyScalar(j.subtotal), total |-> PyScalar(j.total),
     items |-> [i \in 1..Len(j.items) |->
                  [quantity |-> PyScalar(j.items[i].quantity),
                   weight |-> PyScalar(j.items[i].weight)]]]

\* json.loads(s): the text is one document, whitespace allowed around it
json_loads(s) ==
    LET body == strip(s)
    IN  IF Len(body) = 1 /\ body[1] \in DOMAIN JsonDocs
        THEN Returned(PyDocument(JsonDocs[body[1]]))
        ELSE Raised("JSONDecodeError", "Expecting value")

\* isinstance(v, (int, float)); bool is a subclass of int
IsIntOrFloat(v) == v.py \in {"int", "float", "bool"}

\* ---------------------------------------------------------- ProcessingResult
ProcessingResult(success, data, error, raw_response) ==
    [success |-> success, data |-> data, error |-> error,
     raw_response |-> raw_response]

\* ------------------------------------------------- the completion backend
\* What one agent call meets: the image file cannot be read (encode_image),
\* the completion request fails, the message has no content, or a text.
IOError(image_path) ==
    [kind |-> "raise", type |-> "OSError",
     msg |-> "No such file: " \o image_path, text |-> <<>>]
APIError == [kind |-> "raise", type |-> "APIError",
             msg |-> "Connection error.", text |-> <<>>]
NoContent == [kind |-> "nocontent", type |-> "", msg |-> "", text |-> <<>>]
Content(text) == [kind |-> "content", type |-> "", msg |-> "", text |-> text]

\* response.choices[0].message.content.strip()
content_strip(io) ==
    CASE io.kind = "raise" -> Raised(io.type, io.msg)
      [] io.kind = "nocontent" ->
            Raised("AttributeError",
                   "'NoneType' object has no attribute 'strip'")
      [] io.kind = "content" -> Returned(strip(io.text))

\* ----------------------------------------------------- TranscriptionAgent
TranscriptionAgent_process(image_path, io) ==
    LET body == content_strip(io)
    IN  IF ~body.raised
        THEN Returned(ProcessingResult(TRUE, Some(body.value), None, None))
        ELSE IF Catches("Exception", body)
        THEN Returned(ProcessingResult(FALSE, None,
                 Some("Transcription failed: " \o body.msg), None))
        ELSE body

\* ------------------------------------------------------- TextMergingAgent
\* variant: the failure result carries an empty text as data
TextMergingAgent_process_emptyData(transcriptions, io) ==
    LET body == content_strip(io)
    IN  IF ~body.raised
        THEN Returned(ProcessingResult(TRUE, Some(body.value), None, None))
        ELSE IF Catches("Exception", body)
        THEN Returned(ProcessingResult(FALSE, Some(<<>>),
                 Some("Text merging failed: " \o body.msg), None))
        ELSE body

TextMergingAgent_process(transcriptions, io) ==
    LET body == content_strip(io)
    IN  IF ~body.raised
        THEN Returned(ProcessingResult(TRUE, Some(body.value), None, None))
        ELSE IF Catches("Exception", body)
        THEN Returned(ProcessingResult(FALSE, None,
                 Some("Text merging failed: " \o body.msg), None))
        ELSE body

\* ------------------------------------------------------ QualityCheckAgent
\* variant: the failure is reported under the merge stage's name
QualityCheckAgent_process_mergeTag(image_path, transcribed_text, io) ==
    LET body == content_strip(io)
        verified_text == body.value
    IN  IF ~body.raised
        THEN IF startswith(verified_text, <<VERIFIEDWORD, SP>>)
             THEN Returned(ProcessingResult(TRUE, Some(transcribed_text),
                                            None, None))
             ELSE Returned(ProcessingResult(TRUE, Some(verified_text),
                                            None, None))
        ELSE IF Catches("Exception", body)
        THEN Returned(ProcessingResult(FALSE, None,
                 Some("Text merging failed: " \o body.msg), None))
        ELSE body

QualityCheckAgent_process(image_path, transcribed_text, io) ==
    LET body == content_strip(io)
        verified_text == body.value
    IN  IF ~body.raised
        THEN IF startswith(verified_text, <<VERIFIEDWORD, SP>>)
             THEN Returned(ProcessingResult(TRUE, Some(transcribed_text),
                                            None, None))
             ELSE Returned(ProcessingResult(TRUE, Some(verified_text),
                                            None, None))
        ELSE IF Catches("Exception", body)
        THEN Returned(ProcessingResult(FALSE, None,
                 Some("Quality check failed: " \o body.msg), None))
        ELSE body

\* ----------------------------------------------------- StructuredDataAgent
\* "Clean up any markdown formatting"
CleanMarkdown(result) ==
    IF startswith(result, <<FENCE>>) /\ endswith(result, <<FENCE>>)
    THEN LET inner == split(result, FENCE)[2]
             unlabelled == IF startswith(inner, <<JSONWORD, NL>>)
                           THEN DropPrefix(inner, 2)
                           ELSE inner
         IN  strip(unlabelled)
    ELSE result

\* parsed_data.get('totals', {}).get(key)
TotalsGet(parsed_data, key) ==
    IF parsed_data.top # "dict"
    THEN Raised("AttributeError", "object has no attribute 'get'")
    ELSE IF parsed_data.totals = "absent"
    THEN Returned(PyNone)
    ELSE IF parsed_data.totals # "dict"
    THEN Raised("AttributeError", "object has no attribute 'get'")
    ELSE LET v == IF key = "subtotal" THEN parsed_data.subtotal
                  ELSE parsed_data.total
         IN  Returned(IF v.py = "absent" THEN PyNone ELSE v)

\* "Verify critical data types"
VerifyTypes(parsed_data) ==
    LET subtotal == TotalsGet(parsed_data, "subtotal")
        total == TotalsGet(parsed_data, "total")
    IN  IF subtotal.raised THEN subtotal
        ELSE IF ~IsIntOrFloat(subtotal.value)
        THEN Raised("ValueError", "Subtotal must be a number")
        ELSE IF total.raised THEN total
        ELSE IF ~IsIntOrFloat(total.value)
        THEN Raised("ValueError", "Total must be a number")
        ELSE Returned(parsed_data)

\* variant: the parse failure does not keep the response
ParseAndVerify_noRawResponse(result) ==
    LET loaded == json_loads(result)
        body == IF loaded.raised THEN loaded ELSE VerifyTypes(loaded.value)
    IN  IF ~body.raised
        THEN Returned(ProcessingResult(TRUE, Some(body.value), None, None))
        ELSE IF Catches("JSONDecodeError", body)
        THEN Returned(ProcessingResult(FALSE, None,
                 Some("Failed to parse JSON response"), None))
        ELSE body

\* the inner try ... except json.JSONDecodeError of StructuredDataAgent.process
ParseAndVerify(result) ==
    LET loaded == json_loads(result)
        body == IF loaded.raised THEN loaded ELSE VerifyTypes(loaded.value)
    IN  IF ~body.raised
        THEN Returned(ProcessingResult(TRUE, Some(body.value), None, None))
        ELSE IF Catches("JSONDecodeError", body)
        THEN Returned(ProcessingResult(FALSE, None,
                 Some("Failed to parse JSON response"), Some(result)))
        ELSE body

StructuredDataAgent_process(text, io) ==
    LET stripped == content_strip(io)
        body == IF stripped.raised THEN stripped
                ELSE ParseAndVerify(CleanMarkdown(stripped.value))
    IN  IF ~body.raised
        THEN body
        ELSE IF Catches("Exception", body)
        THEN Returned(ProcessingResult(FALSE, None,
                 Some("Structured data formatting failed: " \o body.msg),
                 None))
        ELSE body

\* ------------------------------------------------ OptimizedReceiptProcessor
VARIABLES
    folder,             \* the *.jpg files in the receipt folder
    pc,                 \* position in process_receipt_folder
    image_paths,        \* list(folder_path.glob('*.jpg'))
    idx,                \* position of the transcription loop in image_paths
    transcriptions,     \* the successful transcriptions, in loop order
    text_for_checking,  \* Optional: the text handed to the quality check
    checked,            \* Optional: the quality check's result
    result,             \* Optional: the ProcessingResult returned to the caller
    escaped,            \* an exception left process_receipt_folder
    calls               \* every agent call so far: agent, arguments, response, result

\* the database of import_receipts.py
VARIABLES
    receipts,   \* the committed rows of the receipts table, in insertion order
    pending     \* the Receipt objects added to the session and not committed

storeVars == <<receipts, pending>>

\* calls of store_utils.py made by a caller (test_store_utils.py, dashboard)
VARIABLES
    query_name,   \* the raw name the caller passes: None or Some(str)
    query_threshold, \* the threshold the caller passes
    normalized,   \* <<>> or <<r>>: r returned by normalize_store_name(query_name, query_threshold)
    permuted,     \* <<>> or <<[name, out]>>: the same call on the name's tokens in another order
    added,        \* the returned name was committed as a store_normalized value
    again,        \* <<>> or <<r>>: r returned by normalize_store_name on the returned name
    analysis      \* <<>> or <<d>>: d returned by analyze_store_matches(query_name, query_threshold)

normVars == <<query_name, query_threshold, normalized, permuted, added, again, analysis>>

\* import_receipt running in several processes on one database
VARIABLES
    importers   \* per process: where it is in import_receipt, and its Receipt

concVars == <<importers>>

\* the receipts database with its item and tax rows, the session of the
\* import script and the session of the dashboard's management page
VARIABLES
    db,               \* committed Receipt rows: id, json_path, the counts of item and tax rows, the call that built the row
    session_new,      \* import script's session: Receipt objects added and not committed
    session_deleted,  \* dashboard's session: receipt ids whose item and tax rows are deleted and not committed
    dblog             \* the calls so far: what was called, how many Receipt objects it added, the committed rows before and after it, the deletes it left pending

dbVars == <<db, session_new, session_deleted, dblog>>

\* process_receipt run again and again on one folder
VARIABLES
    analysis_file,   \* analysis/receipt_analysis.json exists
    runs             \* the finished runs: did the pipeline succeed, did the run write the file

runVars == <<analysis_file, runs>>

pipeVars == <<folder, pc, image_paths, idx, transcriptions, text_for_checking,
              checked, result, escaped, calls>>

ImageName(i) == "receipt_" \o ToString(i) \o ".jpg"

Ascending(n) == [i \in 1..n |-> ImageName(i)]
Descending(n) == [i \in 1..n |-> ImageName(n + 1 - i)]

\* glob yields the files in the directory's order, which need not be sorted
GlobOrders(files) == {Ascending(Len(files)), Descending(Len(files))}

TextOf(image_path) == "text of " \o image_path

TranscriptionResponses(image_path) ==
    {IOError(image_path), APIError, NoContent,
     Content(<<TextOf(image_path)>>),
     Content(<<SP, TextOf(image_path), NL>>),
     Content(<<SP>>)}

MergeResponses ==
    {APIError, NoContent, Content(<<"merged text">>),
     Content(<<NL, "merged text", SP>>)}

QualityCheckResponses(image_path, text) ==
    {IOError(image_path), APIError, NoContent,
     Content(<<VERIFIEDWORD, SP>> \o text),
     Content(<<SP, VERIFIEDWORD, SP, "rewritten text", NL>>),
     Content(<<VERIFIEDWORD, SP>>),
     Content(<<"corrected text">>),
     Content(<<SP, "corrected text", NL>>)}

StructuringBodies == DOMAIN JsonDocs \cup {"Sorry, I cannot"}
WrappedBodies == {"{each}", "{both}", "{total:true}", "Sorry, I cannot"}

StructuringResponses ==
    {APIError, NoContent, Content(<<>>), Content(<<FENCE>>),
     Content(<<"Here is the JSON:", NL, FENCE, JSONWORD, NL, "{each}", NL,
               FENCE>>),
     Content(<<FENCE, "{each}", FENCE, "Sorry, I cannot", FENCE>>)}
    \cup {Content(<<b>>) : b \in StructuringBodies}
    \cup {Content(<<SP, b, NL>>) : b \in WrappedBodies}
    \cup {Content(<<FENCE, NL, b, NL, FENCE>>) : b \in WrappedBodies}
    \cup {Content(<<FENCE, JSONWORD, NL, b, NL, FENCE>>) : b \in WrappedBodies}
    \cup {Content(<<NL, FENCE, JSONWORD, NL, b, FENCE, SP>>) : b \in WrappedBodies}

Call(agent, image, input, io, out) ==
    [agent |-> agent, image |-> image, input |-> input, io |-> io, out |-> out]

\* variant: the failing stage's error is wrapped in a pipeline error
ShortCircuit_wrapped(failing) ==
    Some(ProcessingResult(FALSE, None,
             Some("Processing pipeline failed: " \o failing.error[1]), None))

\* `if not merged.success: return merged`, `if not checked.success: return checked`
ShortCircuit(failing) == Some(failing)

\* variant: every image has to transcribe
NoTranscriptions_anyFailed(successful, paths) == Len(successful) < Len(paths)

\* variant: a single transcription does not count
NoTranscriptions_needsTwo(successful, paths) == Len(successful) <= 1

\* `if not transcriptions:` after the loop
NoTranscriptions(successful, paths) == successful = <<>>

\* variant: an image whose transcription failed is tried again
NextImage_retryFailed(i, r) == IF r.success THEN i + 1 ELSE i

\* `for image_path in image_paths:`: the position after image i, whatever
\* the result r of its transcription
NextImage(i, r) == i + 1

\* variant: the reference image is the last image
ReferenceImage_last(paths) == paths[Len(paths)]

\* `str(image_paths[0])`
ReferenceImage(paths) == paths[1]

\* variant: the structuring stage is given the text from before the check
StructuringInput_unchecked(checked_result, unchecked_text) == unchecked_text

\* `self.structured_data.process(checked.data)`
StructuringInput(checked_result, unchecked_text) == checked_result.data[1]

\* variant: the merge is decided by the number of images
MoreThanOne_images(successful, paths) == Len(paths) > 1

\* `if len(transcriptions) > 1:`
MoreThanOne(successful, paths) == Len(successful) > 1

\* variant: the handler names one exception class only
PipelineCatches_valueErrorOnly(o) == Catches("ValueError", o)

\* `except Exception as e:` of process_receipt_folder
PipelineCatches(o) == Catches("Exception", o)

\* the handler of process_receipt_folder, reached by the raised outcome o
PipelineExcept(o) ==
    IF PipelineCatches(o)
    THEN /\ result' = Some(ProcessingResult(FALSE, None,
                          Some("Processing pipeline failed: " \o o.msg), None))
         /\ escaped' = FALSE
    ELSE /\ result' = None
         /\ escaped' = TRUE

PipeInit ==
    /\ folder \in {Ascending(n) : n \in 0..MaxImages}
    /\ pc = "start"
    /\ image_paths = <<>>
    /\ idx = 0
    /\ transcriptions = <<>>
    /\ text_for_checking = None
    /\ checked = None
    /\ result = None
    /\ escaped = FALSE
    /\ calls = <<>>

\* folder_path.glob('*.jpg') and the empty-folder return
ListImages ==
    /\ pc = "start"
    /\ \E listing \in {Returned(o) : o \in GlobOrders(folder)}
                       \cup {Raised("OSError", "Permission denied")} :
         IF listing.raised
         THEN /\ PipelineExcept(listing)
              /\ pc' = "done"
              /\ UNCHANGED <<image_paths, idx>>
         ELSE /\ image_paths' = listing.value
              /\ escaped' = FALSE
              /\ IF listing.value = <<>>
                 THEN /\ result' = Some(ProcessingResult(FALSE, None,
                              Some("No receipt images found in folder"), None))
                      /\ pc' = "done"
                      /\ idx' = idx
                 ELSE /\ result' = None
                      /\ pc' = "transcribe"
                      /\ idx' = 1
    /\ UNCHANGED <<folder, transcriptions, text_for_checking, checked, calls>>
    /\ UNCHANGED <<storeVars, normVars, concVars, dbVars, runVars>>

\* one pass of the transcription loop; after the last image, the choice
\* between failing, merging and going to the quality check directly
Transcribe ==
    /\ pc = "transcribe"
    /\ LET image_path == image_paths[idx] IN
       \E io \in TranscriptionResponses(image_path) :
         LET o == TranscriptionAgent_process(image_path, io) IN
         IF o.raised
         THEN /\ PipelineExcept(o)
              /\ pc' = "done"
              /\ UNCHANGED <<idx, transcriptions, text_for_checking, calls>>
         ELSE LET r == o.value
                  appended == IF r.success
                              THEN Append(transcriptions, r.data[1])
                              ELSE transcriptions
              IN  /\ calls' = Append(calls,
                          Call("transcriber", image_path, <<>>, io, r))
                  /\ transcriptions' = appended
                  /\ escaped' = FALSE
                  /\ IF NextImage(idx, r) <= Len(image_paths)
                     THEN /\ idx' = NextImage(idx, r)
                          /\ pc' = "transcribe"
                          /\ UNCHANGED <<result, text_for_checking>>
                     ELSE /\ idx' = idx
                          /\ IF NoTranscriptions(appended, image_paths)
                             THEN /\ result' = Some(ProcessingResult(FALSE,
                                       None,
                                       Some("No successful transcriptions"),
                                       None))
                                  /\ pc' = "done"
                                  /\ UNCHANGED text_for_checking
                             ELSE IF MoreThanOne(appended, image_paths)
                             THEN /\ pc' = "merge"
                                  /\ UNCHANGED <<result, text_for_checking>>
                             ELSE /\ text_for_checking' = Some(appended[1])
                                  /\ pc' = "check"
                                  /\ UNCHANGED result
    /\ UNCHANGED <<folder, image_paths, checked>>
    /\ UNCHANGED <<storeVars, normVars, concVars, dbVars, runVars>>

\* self.merger.process(transcriptions)
Merge ==
    /\ pc = "merge"
    /\ \E io \in MergeResponses :
         LET o == TextMergingAgent_process(transcriptions, io) IN
         IF o.raised
         THEN /\ PipelineExcept(o)
              /\ pc' = "done"
              /\ UNCHANGED <<text_for_checking, calls>>
         ELSE LET merged == o.value IN
              /\ calls' = Append(calls,
                      Call("merger", "", transcriptions, io, merged))
              /\ escaped' = FALSE
              /\ IF ~merged.success
                 THEN /\ result' = ShortCircuit(merged)
                      /\ pc' = "done"
                      /\ UNCHANGED text_for_checking
                 ELSE /\ text_for_checking' = Some(merged.data[1])
                      /\ pc' = "check"
                      /\ UNCHANGED result
    /\ UNCHANGED <<folder, image_paths, idx, transcriptions, checked>>
    /\ UNCHANGED <<storeVars, normVars, concVars, dbVars, runVars>>

\* self.checker.process(str(image_paths[0]), text_for_checking)
QualityCheck ==
    /\ pc = "check"
    /\ LET image_path == ReferenceImage(image_paths)
           text == text_for_checking[1]
       IN
       \E io \in QualityCheckResponses(image_path, text) :
         LET o == QualityCheckAgent_process(image_path, text, io) IN
         IF o.raised
         THEN /\ PipelineExcept(o)
              /\ pc' = "done"
              /\ UNCHANGED <<checked, calls>>
         ELSE /\ calls' = Append(calls,
                      Call("checker", image_path, <<text>>, io, o.value))
              /\ checked' = Some(o.value)
              /\ escaped' = FALSE
              /\ IF ~o.value.success
                 THEN /\ result' = ShortCircuit(o.value)
                      /\ pc' = "done"
                 ELSE /\ pc' = "structure"
                      /\ UNCHANGED result
    /\ UNCHANGED <<folder, image_paths, idx, transcriptions, text_for_checking>>
    /\ UNCHANGED <<storeVars, normVars, concVars, dbVars, runVars>>

\* self.structured_data.process(checked.data) and `return final`
Structure ==
    /\ pc = "structure"
    /\ LET text == StructuringInput(checked[1], text_for_checking[1]) IN
       \E io \in StructuringResponses :
         LET o == StructuredDataAgent_process(text, io) IN
         IF o.raised
         THEN /\ PipelineExcept(o)
              /\ UNCHANGED calls
         ELSE /\ calls' = Append(calls,
                      Call("structured_data", "", <<text>>, io, o.value))
              /\ result' = Some(o.value)
              /\ escaped' = FALSE
    /\ pc' = "done"
    /\ UNCHANGED <<folder, image_paths, idx, transcriptions, text_for_checking,
                   checked>>
    /\ UNCHANGED <<storeVars, normVars, concVars, dbVars, runVars>>



\* ====================================================== store_utils.py
\* A store name is a Python str as the sequence of its characters.
UpperCase == <<"A", "B", "C", "D", "E", "F", "G", "H", "I", "J", "K", "L", "M", "N", "O", "P", "Q", "R", "S", "T", "U", "V", "W", "X", "Y", "Z">>
LowerCase == <<"a", "b", "c", "d", "e", "f", "g", "h", "i", "j", "k", "l", "m", "n", "o", "p", "q", "r", "s", "t", "u", "v", "w", "x", "y", "z">>
Digits == <<"0", "1", "2", "3", "4", "5", "6", "7", "8", "9">>
Alphabet == Digits \o LowerCase

Range(f) == {f[i] : i \in DOMAIN f}

IsSpace(c) == c \in {" ", "\n", "\t"}
IsAlnum(c) == c \in Range(UpperCase) \cup Range(LowerCase) \cup Range(Digits)

\* str.lower() and str.upper() of one character
lower(c) ==
    IF c \in Range(UpperCase)
    THEN LowerCase[CHOOSE i \in 1..26 : UpperCase[i] = c]
    ELSE c
upper(c) ==
    IF c \in Range(LowerCase)
    THEN UpperCase[CHOOSE i \in 1..26 : LowerCase[i] = c]
    ELSE c

RECURSIVE str_lstrip(_)
str_lstrip(s) ==
    IF s # <<>> /\ IsSpace(Head(s)) THEN str_lstrip(Tail(s)) ELSE s

RECURSIVE str_rstrip(_)
str_rstrip(s) ==
    IF s # <<>> /\ IsSpace(s[Len(s)])
    THEN str_rstrip(SubSeq(s, 1, Len(s) - 1))
    ELSE s

\* str.strip() on characters
str_strip(s) == str_rstrip(str_lstrip(s))

\* str.split(): the maximal runs of non-whitespace characters
RECURSIVE str_split(_)
str_split(s) ==
    LET t == str_lstrip(s) IN
    IF t = <<>> THEN <<>>
    ELSE LET stops == {i \in 1..Len(t) : IsSpace(t[i])}
             n == IF stops = {} THEN Len(t)
                  ELSE (CHOOSE i \in stops : \A k \in stops : i <= k) - 1
         IN  <<SubSeq(t, 1, n)>> \o str_split(SubSeq(t, n + 1, Len(t)))

\* ' '.join(words)
RECURSIVE str_join(_)
str_join(words) ==
    IF words = <<>> THEN <<>>
    ELSE IF Len(words) = 1 THEN words[1]
    ELSE words[1] \o <<" ">> \o str_join(Tail(words))

\* str.capitalize()
capitalize(word) ==
    [i \in 1..Len(word) |-> IF i = 1 THEN upper(word[i]) ELSE lower(word[i])]

\* the order of two characters that full_process can leave in a string
Ord(c) == IF c = " " THEN 0
          ELSE CHOOSE i \in 1..Len(Alphabet) : Alphabet[i] = c

\* a < b for strings, as sorted() compares them
RECURSIVE str_less(_, _)
str_less(a, b) ==
    IF b = <<>> THEN FALSE
    ELSE IF a = <<>> THEN TRUE
    ELSE IF Head(a) = Head(b) THEN str_less(Tail(a), Tail(b))
    ELSE Ord(Head(a)) < Ord(Head(b))

\* variant: the tokens keep their order
sorted_asGiven(words) == words

\* sorted(words)
RECURSIVE sorted(_)
sorted(words) ==
    IF words = <<>> THEN <<>>
    ELSE LET k == CHOOSE i \in 1..Len(words) :
                      \A j \in 1..Len(words) :
                          ~str_less(words[j], words[i])
             rest == SubSeq(words, 1, k - 1) \o SubSeq(words, k + 1, Len(words))
         IN  <<words[k]>> \o sorted(rest)

\* thefuzz utils.full_process: characters that are not letters or digits
\* become spaces, then lower case, then strip
full_process(s) ==
    str_strip([i \in 1..Len(s) |->
                  IF IsAlnum(s[i]) THEN lower(s[i]) ELSE " "])

Max(a, b) == IF a >= b THEN a ELSE b

\* one row of the longest-common-subsequence table
RECURSIVE LcsRow(_, _, _, _)
LcsRow(prev, c, b, cur) ==
    IF Len(cur) = Len(b) + 1 THEN cur
    ELSE LET j == Len(cur) IN
         LcsRow(prev, c, b,
                Append(cur, IF c = b[j] THEN prev[j] + 1
                            ELSE Max(prev[j + 1], cur[j])))

\* the table row by row; each row is complete before the next one starts
RECURSIVE LcsRows(_, _, _, _)
LcsRows(a, b, i, prev) ==
    IF i > Len(a) THEN prev[Len(b) + 1]
    ELSE LET row == LcsRow(prev, a[i], b, <<0>>)
         IN  IF Len(row) = Len(b) + 1 THEN LcsRows(a, b, i + 1, row) ELSE 0

lcs_length(a, b) == LcsRows(a, b, 1, [j \in 1..(Len(b) + 1) |-> 0])

\* int(round(x)) for x = num / den: halves go to the even neighbour
py_round(num, den) ==
    LET q == num \div den
        r == num % den
    IN  IF 2 * r < den THEN q
        ELSE IF 2 * r > den THEN q + 1
        ELSE IF q % 2 = 0 THEN q ELSE q + 1

\* fuzz.ratio on processed strings: 100 * 2 * lcs / (len(a) + len(b)),
\* the normalised indel similarity
ratio(a, b) ==
    IF a = <<>> \/ b = <<>> THEN 0
    ELSE py_round(200 * lcs_length(a, b), Len(a) + Len(b))

\* fuzz.token_sort_ratio(s1, s2)
token_sort_ratio(s1, s2) ==
    ratio(str_join(sorted(str_split(full_process(s1)))),
          str_join(sorted(str_split(full_process(s2)))))

\* the alias table of normalize_store_name, in its iteration order
store_maps ==
    <<[normalized_name |-> <<"W", "h", "o", "l", "e", " ", "F", "o", "o", "d", "s", " ", "M", "a", "r", "k", "e", "t">>,
       variants |-> <<<<"W", "h", "o", "l", "e", " ", "F", "o", "o", "d", "s">>,
                      <<"W", "F", "M">>,
                      <<"W", "h", "o", "l", "e", " ", "F", "o", "o", "d", "s", " ", "M", "k", "t">>,
                      <<"W", "F", " ", "M", "a", "r", "k", "e", "t">>>>],
      [normalized_name |-> <<"L", "u", "n", "a", "r", "d", "i", "'", "s">>,
       variants |-> <<<<"L", "u", "n", "a", "r", "d", "i", "s">>,
                      <<"L", "u", "n", "a", "r", "d", "i">>,
                      <<"L", "u", "n", "a", "r", "d", "i", "'", "s", " ", "M", "a", "r", "k", "e", "t">>>>]>>

DefaultThreshold == 80

\* "Direct mapping check": the first entry that lists the name
DirectMapping(store) ==
    LET hits == {k \in 1..Len(store_maps) :
                    \/ store \in Range(store_maps[k].variants)
                    \/ store = store_maps[k].normalized_name}
    IN  IF hits = {} THEN None
        ELSE Some(store_maps[CHOOSE k \in hits : \A h \in hits : k <= h]
                      .normalized_name)

\* the names scored by the fuzzy loop, in loop order: each entry's
\* normalized name, then its variants
Candidates(k) ==
    LET e == store_maps[k] IN
    <<[name |-> e.normalized_name, match |-> e.normalized_name]>>
    \o [i \in 1..Len(e.variants) |->
           [name |-> e.variants[i], match |-> e.normalized_name]]

RECURSIVE AllCandidates(_)
AllCandidates(k) ==
    IF k > Len(store_maps) THEN <<>>
    ELSE Candidates(k) \o AllCandidates(k + 1)

\* the loop over the candidates: `if score > best_score:`
RECURSIVE BestMatch(_, _, _, _)
BestMatch(store, cands, i, best) ==
    IF i > Len(cands) THEN best
    ELSE LET score == token_sort_ratio(store, cands[i].name)
         IN  BestMatch(store, cands, i + 1,
                       IF score > best.best_score
                       THEN [best_score |-> score,
                             best_match |-> Some(cands[i].match)]
                       ELSE best)

\* "No match found, return cleaned original"
TitleCase(store) ==
    LET words == str_split(store)
    IN  str_join([i \in 1..Len(words) |-> capitalize(words[i])])

\* variant: only None is turned away
normalize_store_name_noneOnly(store_name, threshold) ==
    IF store_name = None
    THEN None
    ELSE LET store == str_strip(store_name[1])
             direct == DirectMapping(store)
             best == BestMatch(store, AllCandidates(1), 1,
                               [best_score |-> 0, best_match |-> None])
         IN  IF direct # None THEN direct
             ELSE IF best.best_score >= threshold THEN best.best_match
             ELSE Some(TitleCase(store))

\* normalize_store_name(store_name, threshold); the result is Optional[str].
\* store_name is None (<<>> as Optional) or Some(str).
normalize_store_name(store_name, threshold) ==
    IF store_name = None \/ store_name[1] = <<>>
    THEN None
    ELSE LET store == str_strip(store_name[1])
             direct == DirectMapping(store)
             best == BestMatch(store, AllCandidates(1), 1,
                               [best_score |-> 0, best_match |-> None])
         IN  IF direct # None THEN direct
             ELSE IF best.best_score >= threshold THEN best.best_match
             ELSE Some(TitleCase(store))

\* ==================================================== import_receipts.py
\* metadata['store'] of the analysis files that get imported
RawStoreNames ==
    {None,
     Some(<<" ", " ">>),
     Some(<<"T", "r", "a", "d", "e", "r", " ", "J", "o", "e", "s">>),
     Some(<<"T", "r", "a", "d", "e", "r", " ", "J", "o", "e", "'", "s">>),
     Some(<<"t", "r", "a", "d", "e", "r", " ", " ", "j", "o", "e", "s", " ">>),
     Some(<<"W", "F", "M">>),
     Some(<<"W", "h", "o", "l", "e", " ", "F", "o", "o", "d", " ", "M", "a", "r", "k", "e", "t">>),
     Some(<<"S", "a", "f", "e", "w", "a", "y">>)}

\* get_known_stores(): the distinct non-null store_normalized values of the
\* committed rows, or nothing when the query fails
get_known_stores(rows, sqliteError) ==
    IF sqliteError THEN {}
    ELSE {rows[i].store_normalized[1] :
             i \in {k \in DOMAIN rows : rows[k].store_normalized # None}}

\* Receipt(store=store_name, store_normalized=normalized_store, ...)
Receipt(store_name) ==
    [store |-> store_name,
     store_normalized |-> normalize_store_name(store_name, DefaultThreshold)]

StoreInit ==
    /\ receipts = <<>>
    /\ pending = <<>>

\* import_receipt(session, json_path) called in the callers' try/except:
\* the file fails before the Receipt is built (unreadable, a metadata key
\* missing, a bad date), or an item lacks a key after session.add(receipt),
\* or everything is added and session.commit() writes the session's
\* pending objects.
ImportReceipt ==
    /\ Len(receipts) + Len(pending) < MaxReceipts
    /\ \E store_name \in RawStoreNames :
       \E fault \in {"none", "metadata", "item"} :
         CASE fault = "metadata" ->
                UNCHANGED <<receipts, pending>>
           [] fault = "item" ->
                /\ pending' = Append(pending, Receipt(store_name))
                /\ UNCHANGED receipts
           [] fault = "none" ->
                /\ receipts' = receipts \o pending \o <<Receipt(store_name)>>
                /\ pending' = <<>>
    /\ UNCHANGED <<pipeVars, normVars, concVars, dbVars, runVars>>

\* session.close() at the end of import_all_receipts
CloseSession ==
    /\ pending # <<>>
    /\ pending' = <<>>
    /\ UNCHANGED receipts
    /\ UNCHANGED <<pipeVars, normVars, concVars, dbVars, runVars>>

\* ============================================= callers of store_utils.py
\* the raw names a caller passes (test_store_utils.py passes a list of
\* spellings; the importers pass metadata['store'])
QueryNames ==
    {None,
     Some(<<>>),
     Some(<<" ", " ">>),
     Some(<<"W", "F", "M">>),
     Some(<<"w", "h", "o", "l", "e", " ", "f", "o", "o", "d", "s", " ", "m", "k", "t">>),
     Some(<<"F", "o", "o", "d", "s", " ", "W", "h", "o", "l", "e", " ", "M", "a", "r", "k", "e", "t">>),
     Some(<<"M", "a", "r", "k", "e", "t", " ", "W", "F">>),
     Some(<<"t", "r", "a", "d", "e", "r", " ", " ", "j", "o", "e", "s", " ">>),
     Some(<<"B", "J">>),
     Some(<<"M", " ", "a", "r">>),
     Some(<<"L", "u", "n", "a", "r", "d", "i", "s", " ", "M", "a", "r", "k", "e", "t">>),
     Some(<<"W", "h", "o", "l", "e", " ", "M", "a", "r", "k", "e", "t">>),
     Some(<<"T", "a", "r", "g", "e", "t">>)}

\* "threshold: Minimum similarity score (0-100)"
Thresholds == {0, 51, DefaultThreshold, 100}

\* metadata['store'] of the receipts imported before the calls, in import
\* order
ImportedStores ==
    <<<<"W", "h", "o", "l", "e", " ", "F", "o", "o", "d", "s">>,
      <<"T", "r", "a", "d", "e", "r", " ", "J", "o", "e", "s">>,
      <<"S", "a", "f", "e", "w", "a", "y">>,
      <<"T", "a", "r", "g", "e", "t">>,
      <<"C", "o", "s", "t", "c", "o">>,
      <<"W", "a", "l", "m", "a", "r", "t">>,
      <<"T", "r", "a", "d", "e", "r", " ", "J", "o", "e", "'", "s">>,
      <<"L", "u", "n", "a", "r", "d", "i", "s">>>>

Min(a, b) == IF a <= b THEN a ELSE b

\* the receipts table after the first n of those imports
ImportedRows(n) ==
    [i \in 1..Min(n, Len(ImportedStores)) |-> Receipt(Some(ImportedStores[i]))]

\* the distinct non-null names of the rows, in the order they first appear
RECURSIVE FirstAppearance(_, _)
FirstAppearance(rows, seen) ==
    IF rows = <<>> THEN <<>>
    ELSE LET n == Head(rows).store_normalized
         IN  IF n = None \/ n[1] \in seen
             THEN FirstAppearance(Tail(rows), seen)
             ELSE <<n[1]>> \o FirstAppearance(Tail(rows), seen \cup {n[1]})

Reverse(s) == [i \in 1..Len(s) |-> s[Len(s) + 1 - i]]

\* the lists get_known_stores() can return: SELECT DISTINCT without ORDER BY
\* fixes no row order; [] when the query fails
fetchall(rows, sqliteError) ==
    IF sqliteError THEN {<<>>}
    ELSE {FirstAppearance(rows, {}), Reverse(FirstAppearance(rows, {}))}

\* the first of the best-scoring entries of a scored list
BestIndex(scored) ==
    CHOOSE i \in 1..Len(scored) :
        \A j \in 1..Len(scored) :
            \/ scored[j].score < scored[i].score
            \/ scored[j].score = scored[i].score /\ i <= j

\* the limit best entries, best first, equal scores in list order
RECURSIVE nlargest(_, _)
nlargest(limit, scored) ==
    IF limit = 0 \/ scored = <<>> THEN <<>>
    ELSE LET k == BestIndex(scored)
             rest == SubSeq(scored, 1, k - 1)
                     \o SubSeq(scored, k + 1, Len(scored))
         IN  <<scored[k]>> \o nlargest(limit - 1, rest)

\* every choice with its score, in list order
RECURSIVE Scored(_, _)
Scored(query, choices) ==
    IF choices = <<>> THEN <<>>
    ELSE <<[store |-> Head(choices),
            score |-> token_sort_ratio(query, Head(choices))]>>
         \o Scored(query, Tail(choices))

\* variant: every choice is returned
extract_unlimited(query, choices, limit) ==
    nlargest(Len(choices), Scored(query, choices))

\* process.extract(query, choices, scorer=fuzz.token_sort_ratio, limit=limit)
extract(query, choices, limit) == nlargest(limit, Scored(query, choices))

\* analyze_store_matches(store_name, threshold); known_stores is the list
\* its call of get_known_stores() returned, <<>> is the empty dict
analyze_store_matches(store_name, threshold, known_stores) ==
    IF store_name = None \/ store_name[1] = <<>>
    THEN <<>>
    ELSE [input |-> store_name[1],
          normalized |-> normalize_store_name(store_name, threshold),
          top_matches |-> extract(store_name[1], known_stores, 5)]

\* the bijections of 1..n
Bijections(n) ==
    {f \in [1..n -> 1..n] : \A i, j \in 1..n : f[i] = f[j] => i = j}

\* the whitespace-separated tokens of a name in another order
Reordered(name) ==
    LET words == str_split(name)
    IN  {str_join([i \in 1..Len(words) |-> words[f[i]]]) :
            f \in Bijections(Len(words))}

\* a caller is about to pass a name and a threshold; the database holds
\* the receipts imported so far
NormInit ==
    /\ query_name \in QueryNames
    /\ query_threshold \in Thresholds
    /\ receipts \in {ImportedRows(n) : n \in {0, 1, MaxKnownStores}}
    /\ pending = <<>>
    /\ normalized = <<>>
    /\ permuted = <<>>
    /\ added = FALSE
    /\ again = <<>>
    /\ analysis = <<>>

\* test_normalization: normalize_store_name(store_name, threshold)
Normalize ==
    /\ analysis = <<>>
    /\ normalized = <<>>
    /\ normalized' = <<normalize_store_name(query_name, query_threshold)>>
    /\ UNCHANGED <<query_name, query_threshold, permuted, added, again, analysis>>
    /\ UNCHANGED <<pipeVars, storeVars, concVars, dbVars, runVars>>

\* normalize_store_name on the same tokens in another order
NormalizeReordered ==
    /\ normalized # <<>>
    /\ permuted = <<>>
    /\ ~added
    /\ query_name # None
    /\ Len(str_split(query_name[1])) >= 2
    /\ \E name \in Reordered(query_name[1]) :
         permuted' = <<[name |-> name,
                        out |-> normalize_store_name(Some(name), query_threshold)]>>
    /\ UNCHANGED <<query_name, query_threshold, normalized, added, again, analysis>>
    /\ UNCHANGED <<pipeVars, storeVars, concVars, dbVars, runVars>>

\* the caller commits a receipt whose store_normalized is the returned name
\* (import_receipt: Receipt(store_normalized=normalized_store), commit)
AddKnown ==
    /\ normalized # <<>>
    /\ permuted = <<>>
    /\ ~added
    /\ added' = TRUE
    /\ receipts' = Append(receipts, [store |-> query_name,
                                     store_normalized |-> normalized[1]])
    /\ UNCHANGED pending
    /\ UNCHANGED <<query_name, query_threshold, normalized, permuted, again, analysis>>
    /\ UNCHANGED <<pipeVars, concVars, dbVars, runVars>>

\* normalize_store_name on the name it returned
NormalizeAgain ==
    /\ added
    /\ again = <<>>
    /\ again' = <<normalize_store_name(normalized[1], query_threshold)>>
    /\ UNCHANGED <<query_name, query_threshold, normalized, permuted, added, analysis>>
    /\ UNCHANGED <<pipeVars, storeVars, concVars, dbVars, runVars>>

\* test_analysis: analyze_store_matches(store_name, threshold);
\* get_known_stores() reads the table, or fails with sqlite3.Error
Analyze ==
    /\ normalized = <<>>
    /\ analysis = <<>>
    /\ \E sqliteError \in BOOLEAN :
       \E known_stores \in fetchall(receipts, sqliteError) :
         analysis' = <<analyze_store_matches(query_name, query_threshold,
                                             known_stores)>>
    /\ UNCHANGED <<query_name, query_threshold, normalized, permuted, added, again>>
    /\ UNCHANGED <<pipeVars, storeVars, concVars, dbVars, runVars>>


\* ================================== import_receipt in concurrent processes
Importers == 1..MaxImporters

\* metadata['store'] of the files the processes import
ConcStoreNames ==
    {Some(<<"T", "r", "a", "d", "e", "r", " ", "J", "o", "e", "s">>),
     Some(<<"T", "r", "a", "d", "e", "r", " ", "J", "o", "e", "'", "s">>),
     Some(<<"t", "r", "a", "d", "e", "r", " ", " ", "j", "o", "e", "s", " ">>),
     Some(<<"W", "F", "M">>),
     Some(<<"S", "a", "f", "e", "w", "a", "y">>)}

ConcInit ==
    importers = [p \in Importers |-> [pc |-> "start", receipt |-> None]]

ConcIdle == importers = <<>>

\* import_receipt up to session.add(receipt): the file is read, the store
\* name normalized and the Receipt built; nothing is read from the database
ConcBuild(p) ==
    /\ importers[p].pc = "start"
    /\ \E store_name \in ConcStoreNames :
         importers' = [importers EXCEPT
                          ![p] = [pc |-> "added",
                                  receipt |-> Some(Receipt(store_name))]]
    /\ UNCHANGED <<storeVars, pipeVars, normVars, dbVars, runVars>>

\* session.commit() of that process
ConcCommit(p) ==
    /\ importers[p].pc = "added"
    /\ receipts' = Append(receipts, importers[p].receipt[1])
    /\ importers' = [importers EXCEPT ![p].pc = "committed"]
    /\ UNCHANGED <<pending, pipeVars, normVars, dbVars, runVars>>

ConcBuildSome == \E p \in Importers : ConcBuild(p)
ConcCommitSome == \E p \in Importers : ConcCommit(p)

\* ============================ import_receipts.py, database_management.py
\* receipt_analysis.json files
JsonFiles == {"a/analysis/receipt_analysis.json", "b/analysis/receipt_analysis.json"}

\* len(data['items']) and len(totals['tax']) of every file
ItemsPerFile == 2
TaxesPerFile == 1

\* how far a call of import_receipt gets: it raises before the Receipt is
\* added (unreadable file, a missing metadata key, a bad date), at an item
\* or a tax after session.add(receipt), or it adds everything and commits
ImportOutcomes ==
    {[raised |-> TRUE, added |-> FALSE, items |-> 0, taxes |-> 0]}
    \cup {[raised |-> TRUE, added |-> TRUE, items |-> i, taxes |-> 0] :
             i \in 0..(ItemsPerFile - 1)}
    \cup {[raised |-> TRUE, added |-> TRUE, items |-> ItemsPerFile, taxes |-> t] :
             t \in 0..(TaxesPerFile - 1)}
    \cup {[raised |-> FALSE, added |-> TRUE, items |-> ItemsPerFile,
           taxes |-> TaxesPerFile]}

\* the objects import_receipt has added to the session when it raises or
\* reaches its commit
import_receipt_adds(json_path, o, call) ==
    IF o.added
    THEN <<[json_path |-> json_path, items |-> o.items, taxes |-> o.taxes,
            by |-> call]>>
    ELSE <<>>

\* session.commit(): the deletes and the added objects of the session are
\* written; new receipts get the next ids
commit(table, new, deleted) ==
    [i \in DOMAIN table |->
        IF table[i].id \in deleted
        THEN [table[i] EXCEPT !.items = 0, !.taxes = 0]
        ELSE table[i]]
    \o [i \in DOMAIN new |->
           [id |-> Len(table) + i, json_path |-> new[i].json_path,
            items |-> new[i].items, taxes |-> new[i].taxes, by |-> new[i].by]]

DbInit ==
    /\ db = <<>>
    /\ session_new = <<>>
    /\ session_deleted = {}
    /\ dblog = <<>>

DbIdle == DbInit

\* one turn of the loop of import_all_receipts / import_new_receipts:
\* import_receipt(session, json_path) in try/except; the except branch
\* prints and the loop goes on with the same session
DbImport ==
    /\ Len(dblog) < MaxDbCalls
    /\ \E json_path \in JsonFiles : \E o \in ImportOutcomes :
         LET call == Len(dblog) + 1
             adds == import_receipt_adds(json_path, o, call)
             after == IF o.raised THEN db
                      ELSE commit(db, session_new \o adds, {})
         IN  /\ db' = after
             /\ session_new' = IF o.raised THEN session_new \o adds ELSE <<>>
             /\ dblog' = Append(dblog,
                     [op |-> "import", json_path |-> json_path,
                      receipt_id |-> 0, ok |-> ~o.raised, added |-> Len(adds),
                      before |-> db, after |-> after, left |-> {}])
    /\ UNCHANGED session_deleted
    /\ UNCHANGED <<pipeVars, storeVars, normVars, concVars, runVars>>

\* session.close() of the import script
DbCloseImport ==
    /\ session_new # <<>>
    /\ session_new' = <<>>
    /\ UNCHANGED <<db, session_deleted, dblog>>
    /\ UNCHANGED <<pipeVars, storeVars, normVars, concVars, runVars>>

\* reimport_receipt(session, receipt_id) on the dashboard's session
DbReimport ==
    /\ Len(dblog) < MaxDbCalls
    /\ \E receipt_id \in 1..MaxDbCalls :
       \E exists \in BOOLEAN :
       \E o \in ImportOutcomes :
         LET found == receipt_id \in DOMAIN db
             json_path == IF found THEN db[receipt_id].json_path ELSE ""
             deleted == session_deleted \cup {receipt_id}
             call == Len(dblog) + 1
             entry(ok, after, left) ==
                 [op |-> "reimport", json_path |-> json_path,
                  receipt_id |-> receipt_id, ok |-> ok,
                  added |-> IF ok THEN 1 ELSE 0,
                  before |-> db, after |-> after, left |-> left]
         IN  IF ~found
             THEN \* "Receipt or JSON file not found"
                  /\ UNCHANGED <<db, session_deleted>>
                  /\ dblog' = Append(dblog, entry(FALSE, db, session_deleted))
             ELSE IF ~exists
             THEN \* the deletes are issued, then "JSON file not found"
                  /\ session_deleted' = deleted
                  /\ UNCHANGED db
                  /\ dblog' = Append(dblog, entry(FALSE, db, deleted))
             ELSE IF o.raised
             THEN \* except: session.rollback()
                  /\ session_deleted' = {}
                  /\ UNCHANGED db
                  /\ dblog' = Append(dblog, entry(FALSE, db, {}))
             ELSE \* import_receipt adds a Receipt and commits
                  LET after == commit(db, import_receipt_adds(json_path, o, call),
                                      deleted)
                  IN  /\ db' = after
                      /\ session_deleted' = {}
                      /\ dblog' = Append(dblog, entry(TRUE, after, {}))
    /\ UNCHANGED session_new
    /\ UNCHANGED <<pipeVars, storeVars, normVars, concVars, runVars>>

\* session.close() of the dashboard
DbCloseDashboard ==
    /\ session_deleted # {}
    /\ session_deleted' = {}
    /\ UNCHANGED <<db, session_new, dblog>>
    /\ UNCHANGED <<pipeVars, storeVars, normVars, concVars, runVars>>

\* ==================== process_receipt and find_unprocessed_receipts
RunInit ==
    /\ analysis_file = FALSE
    /\ runs = <<>>

RunIdle == RunInit

\* variant: the file is written whatever the result
ShouldSave_always(results) == TRUE

\* `if results.success:` before the file is opened for writing
ShouldSave(results) == results.success

\* find_unprocessed_receipts for one directory: no analysis file and at
\* least one .jpg
find_unprocessed_receipts(directory, file_exists) ==
    ~file_exists /\ directory # <<>>

\* process_receipt after the pipeline returned: the result is saved or the
\* error printed; an exception the pipeline let through ends the run
SaveResults ==
    /\ pc = "done"
    /\ pc' = "saved"
    /\ LET writes == ~escaped /\ ShouldSave(result[1])
       IN  /\ analysis_file' = (analysis_file \/ writes)
           /\ runs' = Append(runs, [success |-> ~escaped /\ result[1].success,
                                    wrote |-> writes])
    /\ UNCHANGED <<folder, image_paths, idx, transcriptions, text_for_checking,
                   checked, result, escaped, calls>>
    /\ UNCHANGED <<storeVars, normVars, concVars, dbVars>>

\* process_receipt is called again on the folder
NextRun ==
    /\ pc = "saved"
    /\ Len(runs) < MaxRuns
    /\ pc' = "start"
    /\ image_paths' = <<>>
    /\ idx' = 0
    /\ transcriptions' = <<>>
    /\ text_for_checking' = None
    /\ checked' = None
    /\ result' = None
    /\ escaped' = FALSE
    /\ calls' = <<>>
    /\ UNCHANGED <<folder, runVars>>
    /\ UNCHANGED <<storeVars, normVars, concVars, dbVars>>

\* no call of store_utils.py is under way
NormIdle ==
    /\ query_name = None
    /\ query_threshold = DefaultThreshold
    /\ normalized = <<>>
    /\ permuted = <<>>
    /\ added = FALSE
    /\ again = <<>>
    /\ analysis = <<>>

\* ========================================================= specifications
vars == <<pipeVars, storeVars, normVars, concVars, dbVars, runVars>>

Elsewhere == ConcIdle /\ DbIdle /\ RunIdle

\* one run of process_receipt_folder
Init == PipeInit /\ StoreInit /\ NormIdle /\ Elsewhere
Next == ListImages \/ Transcribe \/ Merge \/ QualityCheck \/ Structure
Spec == Init /\ [][Next]_vars

\* a series of imports into one database
StoreSpecInit == StoreInit /\ PipeInit /\ folder = <<>> /\ NormIdle /\ Elsewhere
StoreSpecNext == ImportReceipt \/ CloseSession
StoreSpec == StoreSpecInit /\ [][StoreSpecNext]_vars

\* one caller of store_utils.py with one raw name: it analyses the name, or
\* it normalizes the name and then either normalizes a reordering of it or
\* commits the returned name and normalizes that
NormSpecInit == NormInit /\ PipeInit /\ folder = <<>> /\ Elsewhere
NormSpecNext ==
    Normalize \/ NormalizeReordered \/ AddKnown \/ NormalizeAgain \/ Analyze
NormSpec == NormSpecInit /\ [][NormSpecNext]_vars

\* import_receipt in MaxImporters processes at once
ConcSpecInit ==
    ConcInit /\ StoreInit /\ PipeInit /\ folder = <<>> /\ NormIdle /\ DbIdle /\ RunIdle
ConcSpecNext == ConcBuildSome \/ ConcCommitSome
ConcSpec == ConcSpecInit /\ [][ConcSpecNext]_vars

\* imports by the import script and reimports by the dashboard
DbSpecInit ==
    DbInit /\ StoreInit /\ PipeInit /\ folder = <<>> /\ NormIdle /\ ConcIdle /\ RunIdle
DbSpecNext == DbImport \/ DbCloseImport \/ DbReimport \/ DbCloseDashboard
DbSpec == DbSpecInit /\ [][DbSpecNext]_vars

\* runs of process_receipt on one folder
RunsSpecInit ==
    /\ RunInit /\ PipeInit /\ Len(folder) <= MaxRunImages
    /\ StoreInit /\ NormIdle /\ ConcIdle /\ DbIdle
RunsSpecNext ==
    ListImages \/ Transcribe \/ Merge \/ QualityCheck \/ Structure
    \/ SaveResults \/ NextRun
RunsSpec == RunsSpecInit /\ [][RunsSpecNext]_vars

\* ================================================================== claims
CallsOf(agent) == {i \in DOMAIN calls : calls[i].agent = agent}
Succeeded(agent) == {i \in CallsOf(agent) : calls[i].out.success}
Failed(agent) == {i \in CallsOf(agent) : ~calls[i].out.success}
Returns == pc = "done" /\ result # None

WellFormed(r) ==
    /\ r.success => (IsSet(r.data) /\ ~IsSet(r.error))
    /\ ~r.success => (IsSet(r.error) /\ ~IsSet(r.data))

\* C1: every ProcessingResult returned by a stage's process or by
\* process_receipt_folder has data and no error when success is true, and an
\* error and no data when success is false.
C1_ExactlyOneOfDataError ==
    /\ \A i \in DOMAIN calls : WellFormed(calls[i].out)
    /\ result # None => WellFormed(result[1])

\* a run in which all four stages returned a result and the pipeline failed
C1_Witness ==
    /\ Returns
    /\ ~result[1].success
    /\ \A a \in {"transcriber", "merger", "checker", "structured_data"} :
          CallsOf(a) # {}
    /\ Failed("transcriber") # {}

\* C2 as stated: a failing result of any stage, transcription included, ends
\* the run and is the pipeline's result.
C2_AnyStageFailureIsReturned ==
    \A i \in DOMAIN calls :
        ~calls[i].out.success =>
            /\ i = Len(calls)
            /\ pc = "done"
            /\ result = Some(calls[i].out)

\* C2 amended: a failing result of the merge, quality-check or structuring
\* stage ends the run and is returned unchanged; a failing transcription is
\* never the pipeline's result.
C2_LaterStageFailureIsReturned ==
    \A i \in DOMAIN calls :
        ~calls[i].out.success =>
            IF calls[i].agent = "transcriber"
            THEN result # Some(calls[i].out)
            ELSE /\ i = Len(calls)
                 /\ pc = "done"
                 /\ result = Some(calls[i].out)

\* the merge failed after a transcription had failed too
C2_Witness ==
    /\ Returns
    /\ Failed("merger") # {}
    /\ Failed("transcriber") # {}
    /\ result = Some(calls[Len(calls)].out)

\* C3: when at least one image transcribed and no call of the merge, the
\* quality check or the structuring failed, the run ends with success = true
\* returned by the structuring stage, whatever the other images did.
C3_PartialTranscriptionFailureTolerated ==
    ( /\ pc = "done"
      /\ Succeeded("transcriber") # {}
      /\ Failed("merger") = {}
      /\ Failed("checker") = {}
      /\ Failed("structured_data") = {} )
    => /\ result # None
       /\ result[1].success
       /\ Succeeded("checker") # {}
       /\ Succeeded("structured_data") # {}

\* three images, the second failed to transcribe, the run succeeded
C3_Witness ==
    /\ Returns
    /\ result[1].success
    /\ Len(image_paths) = 3
    /\ Len(calls) >= 3
    /\ calls[1].out.success
    /\ ~calls[2].out.success
    /\ calls[3].out.success

FanOutOver == image_paths # <<>> /\ Cardinality(CallsOf("transcriber")) = Len(image_paths)
FanOutFailed ==
    result = Some(ProcessingResult(FALSE, None,
                      Some("No successful transcriptions"), None))

\* C4: the run fails at the transcription fan-out exactly when no image
\* transcribed; then it returns success = false and merge, quality check
\* and structuring were never called.
C4_FanOutFailsIffZeroSuccesses ==
    /\ pc = "transcribe" => result = None
    /\ FanOutOver => (FanOutFailed <=> Succeeded("transcriber") = {})
    /\ FanOutFailed =>
          /\ pc = "done"
          /\ FanOutOver
          /\ \A i \in DOMAIN calls : calls[i].agent = "transcriber"

\* two images or more, none transcribed
C4_Witness ==
    /\ FanOutFailed
    /\ Len(image_paths) >= 2
    /\ Succeeded("transcriber") = {}

ParseFailure(r, raw) ==
    /\ ~r.success
    /\ r.error = Some("Failed to parse JSON response")
    /\ r.raw_response = Some(raw)

StructuringTexts ==
    {i \in CallsOf("structured_data") : calls[i].io.kind = "content"}

Cleaned(text) == CleanMarkdown(strip(text))

IsPieceOf(piece, text) ==
    \E a \in 1..(Len(text) + 1) : \E b \in 0..Len(text) :
        piece = SubSeq(text, a, b)

C6_SuccessHasNumericTotals ==
    \A i \in Succeeded("structured_data") :
        LET data == calls[i].out.data[1] IN
        /\ data.top = "dict"
        /\ data.totals = "dict"
        /\ data.subtotal.py \in {"int", "float"}
        /\ data.total.py \in {"int", "float"}

\* C7: in a successful structuring result every item has exactly one of
\* quantity and weight null.
C7_QuantityXorWeight ==
    \A i \in Succeeded("structured_data") :
        LET items == calls[i].out.data[1].items IN
        \A k \in DOMAIN items :
            (items[k].quantity.py = "NoneType")
                # (items[k].weight.py = "NoneType")

AnyTerminalFault ==
    \/ calls = <<>>
    \/ Failed("merger") # {}
    \/ Failed("checker") # {}
    \/ Failed("structured_data") # {}
    \/ (FanOutOver /\ Succeeded("transcriber") = {})

\* C8: no exception leaves process_receipt_folder: the run ends with a
\* returned ProcessingResult, which is a failure with an error whenever
\* the listing, every transcription, or a later stage met a fault.
C8_NoFaultEscapes ==
    /\ ~escaped
    /\ pc = "done" =>
          /\ result # None
          /\ AnyTerminalFault =>
                (~result[1].success /\ IsSet(result[1].error))

\* the directory listing raised and the pipeline returned a failure
C8_Witness ==
    /\ pc = "done"
    /\ folder # <<>>
    /\ calls = <<>>
    /\ result = Some(ProcessingResult(FALSE, None,
           Some("Processing pipeline failed: Permission denied"), None))

\* the Python value v is the JSON scalar j, a number with the same value
SameValue(v, j) ==
    CASE j.t = "number" ->
            /\ v.py \in {"int", "float"}
            /\ v.m * (10 ^ j.s) = j.m * (10 ^ v.s)
      [] j.t = "null" -> v.py = "NoneType"
      [] j.t = "string" -> v.py = "str"
      [] j.t = "true" -> v.py = "bool"
      [] j.t = "missing" -> v.py = "absent"

\* the first JSON document in a text
DocumentIn(text) ==
    LET at == {k \in DOMAIN text : text[k] \in DOMAIN JsonDocs}
    IN  JsonDocs[text[CHOOSE k \in at : \A k2 \in at : k <= k2]]

IsJsonObjectWithNumericTotals(text) ==
    /\ Len(strip(text)) = 1
    /\ strip(text)[1] \in DOMAIN JsonDocs
    /\ LET j == JsonDocs[strip(text)[1]] IN
       /\ j.top = "object"
       /\ j.totals = "object"
       /\ j.subtotal.t = "number"
       /\ j.total.t = "number"

\* C9: a successful result's data is the backend's JSON document with every
\* value unchanged (numbers equal in value), and it is what the pipeline
\* returns; a run of one image, a VERIFIED quality check and a structuring
\* answer that is a JSON object with numeric subtotal and total succeeds.
C9_DataIsBackendRecord ==
    /\ \A i \in Succeeded("structured_data") :
          LET text == calls[i].io.text
              data == calls[i].out.data[1]
              j == DocumentIn(text)
          IN  /\ \E k \in DOMAIN text : text[k] \in DOMAIN JsonDocs
              /\ result = Some(calls[i].out)
              /\ SameValue(data.subtotal, j.subtotal)
              /\ SameValue(data.total, j.total)
              /\ Len(data.items) = Len(j.items)
              /\ \A k \in DOMAIN j.items :
                    /\ SameValue(data.items[k].quantity, j.items[k].quantity)
                    /\ SameValue(data.items[k].weight, j.items[k].weight)
    /\ ( /\ pc = "done"
         /\ Len(image_paths) = 1
         /\ Len(calls) = 3
         /\ calls[1].out.success
         /\ calls[2].io.kind = "content"
         /\ startswith(strip(calls[2].io.text), <<VERIFIEDWORD, SP>>)
         /\ calls[3].io.kind = "content"
         /\ IsJsonObjectWithNumericTotals(calls[3].io.text) )
       => (result # None /\ result[1].success)

\* one image, VERIFIED, and the total 11.37 of the answer in the result
C9_Witness ==
    /\ Returns
    /\ result[1].success
    /\ Len(image_paths) = 1
    /\ Len(calls) = 3
    /\ startswith(strip(calls[2].io.text), <<VERIFIEDWORD, SP>>)
    /\ DocumentIn(calls[3].io.text).total = JNum(1137, 2)
    /\ result[1].data[1].total = [py |-> "float", m |-> 1137, s |-> 2]

\* the committed rows whose canonical name was made from the raw name
Minted ==
    {i \in DOMAIN receipts :
        /\ receipts[i].store # None
        /\ receipts[i].store_normalized =
              Some(TitleCase(str_strip(receipts[i].store[1])))
        /\ DirectMapping(str_strip(receipts[i].store[1])) = None}

\* C10: a raw name that scores at or above the threshold against a minted,
\* committed canonical name is normalised to that name, and no two
\* committed canonical names score at or above the threshold against each
\* other.
C10_NoNearDuplicateCanonicalNames ==
    /\ \A i \in Minted : \A raw \in RawStoreNames \ {None} :
          token_sort_ratio(raw[1], receipts[i].store_normalized[1])
              >= DefaultThreshold
          => normalize_store_name(raw, DefaultThreshold)
                 = receipts[i].store_normalized
    /\ \A a, b \in get_known_stores(receipts, FALSE) :
          a # b => token_sort_ratio(a, b) < DefaultThreshold

\* ------------------------------------------------ claims on store_utils.py
NormalizeReturned == normalized # <<>>
NonEmptyQuery == query_name # None /\ query_name[1] # <<>>
Blank(name) == \A i \in DOMAIN name : IsSpace(name[i])

\* the best-scoring name of the alias table for a trimmed raw name: the
\* normalized name of the first entry among those with the highest score
HighestScoring(store) ==
    LET cands == AllCandidates(1)
        scored == Scored(store, [i \in 1..Len(cands) |-> cands[i].name] \o <<>>)
        k == BestIndex(scored)
    IN  [score |-> scored[k].score, name |-> cands[k].match]

\* C11: normalize_store_name returns None when the raw name is None or the
\* empty string, for every threshold.
C11_EmptyOrNoneGivesNone ==
    (NormalizeReturned /\ query_name \in {None, Some(<<>>)})
    => normalized[1] = None

\* the empty string at the lowest threshold
C11_Witness ==
    /\ NormalizeReturned
    /\ query_name = Some(<<>>)
    /\ query_threshold = 0
    /\ normalized[1] = None

\* C12: normalize_store_name returns None for a non-empty raw name of
\* whitespace only, and a non-null, non-empty string for every raw name with
\* a non-whitespace character.
C12_BlankGivesNoneElseName ==
    (NormalizeReturned /\ NonEmptyQuery)
    => IF Blank(query_name[1])
       THEN normalized[1] = None
       ELSE normalized[1] # None /\ normalized[1][1] # <<>>

\* C13: for every non-empty raw name and every threshold, the result is the
\* highest-scoring known name when that score is at least the threshold, and
\* otherwise the trimmed raw name with each token title-cased and the tokens
\* joined by single spaces. (The known names are the names of the alias
\* table, each scored through its best spelling.)
C13_ThresholdRule ==
    (NormalizeReturned /\ NonEmptyQuery)
    => LET store == str_strip(query_name[1])
           top == HighestScoring(store)
       IN  normalized[1] = IF top.score >= query_threshold
                           THEN Some(top.name)
                           ELSE Some(TitleCase(store))

\* C14: with no canonical name committed yet, normalize_store_name matches
\* nothing and returns the title-cased raw name; "whole foods mkt" gives
\* "Whole Foods Mkt". (Stated for calls with the default threshold.)
C14_EmptyKnownSetTitleCases ==
    (NormalizeReturned /\ ~added /\ NonEmptyQuery
       /\ query_threshold = DefaultThreshold
       /\ get_known_stores(receipts, FALSE) = {})
    => /\ normalized[1] = Some(TitleCase(str_strip(query_name[1])))
       /\ query_name = Some(<<"w", "h", "o", "l", "e", " ", "f", "o", "o", "d", "s", " ", "m", "k", "t">>)
          => normalized[1] = Some(<<"W", "h", "o", "l", "e", " ", "F", "o", "o", "d", "s", " ", "M", "k", "t">>)

\* C15: for every non-empty raw name r and threshold t, once
\* c = normalize_store_name(r, t) is among the known names,
\* normalize_store_name(c, t) = c.
C15_Idempotent ==
    (again # <<>> /\ NonEmptyQuery
       /\ (normalized[1] # None
           => normalized[1][1] \in get_known_stores(receipts, FALSE)))
    => again[1] = normalized[1]

ThresholdMet(name) ==
    HighestScoring(str_strip(name)).score >= query_threshold

\* C16: two raw names made of the same whitespace tokens in different orders
\* get the same canonical name whenever the threshold is met for one of
\* them; "Foods Whole Market" and "Whole Foods Market" both give
\* "Whole Foods Market".
C16_TokenOrderInvariant ==
    permuted # <<>>
    => /\ (ThresholdMet(query_name[1]) \/ ThresholdMet(permuted[1].name))
          => permuted[1].out = normalized[1]
       /\ ( /\ query_name = Some(<<"F", "o", "o", "d", "s", " ", "W", "h", "o", "l", "e", " ", "M", "a", "r", "k", "e", "t">>)
            /\ permuted[1].name = <<"W", "h", "o", "l", "e", " ", "F", "o", "o", "d", "s", " ", "M", "a", "r", "k", "e", "t">> )
          => /\ normalized[1] = Some(<<"W", "h", "o", "l", "e", " ", "F", "o", "o", "d", "s", " ", "M", "a", "r", "k", "e", "t">>)
             /\ permuted[1].out = Some(<<"W", "h", "o", "l", "e", " ", "F", "o", "o", "d", "s", " ", "M", "a", "r", "k", "e", "t">>)

\* "Foods Whole Market" and its reordering "Whole Foods Market" at the
\* default threshold
C16_Witness ==
    /\ permuted # <<>>
    /\ query_threshold = DefaultThreshold
    /\ query_name = Some(<<"F", "o", "o", "d", "s", " ", "W", "h", "o", "l", "e", " ", "M", "a", "r", "k", "e", "t">>)
    /\ permuted[1].name = <<"W", "h", "o", "l", "e", " ", "F", "o", "o", "d", "s", " ", "M", "a", "r", "k", "e", "t">>
    /\ permuted[1].out = Some(<<"W", "h", "o", "l", "e", " ", "F", "o", "o", "d", "s", " ", "M", "a", "r", "k", "e", "t">>)
    /\ normalized[1] = permuted[1].out

AnalyzeReturned == analysis # <<>>

\* C18: for every non-empty store name analyze_store_matches returns a
\* record whose 'normalized' is normalize_store_name(name, threshold) and
\* whose 'top_matches' are at most 5 known canonical names with their
\* scores, best first; and the call leaves the set of known canonical names
\* as it was.
C18_AnalyzeIsReadOnlyDiagnostics ==
    /\ []((AnalyzeReturned /\ NonEmptyQuery)
          => LET d == analysis[1]
                 top == d.top_matches
             IN  /\ DOMAIN d = {"input", "normalized", "top_matches"}
                 /\ d.input = query_name[1]
                 /\ d.normalized
                       = normalize_store_name(query_name, query_threshold)
                 /\ Len(top) <= 5
                 /\ \A i \in DOMAIN top :
                       /\ top[i].store \in get_known_stores(receipts, FALSE)
                       /\ top[i].score
                             = token_sort_ratio(query_name[1], top[i].store)
                 /\ \A i \in 1..(Len(top) - 1) :
                       top[i].score >= top[i + 1].score)
    /\ [][analysis' # analysis
          => get_known_stores(receipts', FALSE)
                = get_known_stores(receipts, FALSE)]_vars

\* more than five known names, five of them listed, the first scoring
\* higher than the last
C18_Witness ==
    /\ AnalyzeReturned
    /\ NonEmptyQuery
    /\ Cardinality(get_known_stores(receipts, FALSE)) > 5
    /\ Len(analysis[1].top_matches) = 5
    /\ analysis[1].top_matches[1].score > analysis[1].top_matches[5].score

\* ------------------------------------ claims on the stages of the pipeline
\* the response opens with the sentinel "VERIFIED: "
IsConfirmation(response) == startswith(lstrip(response), <<VERIFIEDWORD, SP>>)

\* C19: when the quality-check response is a confirmation (it opens with
\* the sentinel), QualityCheckAgent.process returns the candidate text it
\* was given; when it is a correction, it returns the response; so after a
\* confirmation the structuring stage gets the pre-check text. (Whitespace
\* around the response is not counted.)
C19_ConfirmationKeepsCandidate ==
    /\ \A i \in Succeeded("checker") :
          LET response == calls[i].io.text
              candidate == calls[i].input[1]
              data == calls[i].out.data[1]
          IN  IF IsConfirmation(response)
              THEN data = candidate
              ELSE data = strip(response)
    /\ \A i \in Succeeded("checker") : \A j \in CallsOf("structured_data") :
          IsConfirmation(calls[i].io.text)
          => calls[j].input = calls[i].input

Successful == Succeeded("transcriber")

\* the successful transcriptions in image order
RECURSIVE Transcribed(_)
Transcribed(n) ==
    IF n = 0 THEN <<>>
    ELSE IF calls[n].agent = "transcriber" /\ calls[n].out.success
    THEN Append(Transcribed(n - 1), calls[n].out.data[1])
    ELSE Transcribed(n - 1)

C22_SortedOrderIntoMerge ==
    /\ \A i \in CallsOf("transcriber") : calls[i].image = ImageName(i)
    /\ \A m \in CallsOf("merger") : calls[m].input = Transcribed(Len(calls))

CallsFor(image) == {i \in CallsOf("transcriber") : calls[i].image = image}
LaterStages == {"merger", "checker", "structured_data"}
FailedLater == {i \in DOMAIN calls : calls[i].agent \in LaterStages
                                      /\ ~calls[i].out.success}

\* C23: in one run every image is transcribed exactly once, also after
\* another image failed; merge, quality check and structuring are called at
\* most once each; no failed call is repeated and nothing stands in for a
\* failed stage's output.
C23_NoRetryNoSubstitution ==
    /\ \A k \in DOMAIN image_paths : Cardinality(CallsFor(image_paths[k])) <= 1
    /\ (image_paths # <<>> /\ pc \in {"merge", "check", "structure", "done"})
       => \A k \in DOMAIN image_paths :
             Cardinality(CallsFor(image_paths[k])) = 1
    /\ \A a \in LaterStages : Cardinality(CallsOf(a)) <= 1
    /\ transcriptions = Transcribed(Len(calls))
    /\ (Returns /\ FailedLater # {}) => ~result[1].success
    /\ (Returns /\ result[1].success)
       => \E i \in Succeeded("structured_data") : result = Some(calls[i].out)

\* a finished run over several images, the first of which failed, with one
\* call per image and one call of each later stage
C23_Witness ==
    /\ Returns
    /\ Len(image_paths) >= 2
    /\ ~calls[1].out.success
    /\ Len(calls) = Len(image_paths) + 3

StageRank(agent) ==
    CASE agent = "transcriber" -> 1
      [] agent = "merger" -> 2
      [] agent = "checker" -> 3
      [] agent = "structured_data" -> 4

\* C24: the stages run in the order transcription, merge (if any), quality
\* check, structuring: the quality check starts after every transcription
\* and the merge, structuring starts after a successful quality check and
\* gets exactly its output, and after a failure no further stage is called.
C24_StagesInOrder ==
    /\ [](/\ \A i, j \in DOMAIN calls :
                i < j => /\ StageRank(calls[i].agent) <= StageRank(calls[j].agent)
                         /\ calls[j].agent \in LaterStages
                            => StageRank(calls[i].agent) < StageRank(calls[j].agent)
          /\ \A i \in CallsOf("checker") :
                /\ FanOutOver
                /\ Cardinality(Successful) >= 2 => Succeeded("merger") # {}
          /\ \A j \in CallsOf("structured_data") :
                \E i \in Succeeded("checker") : calls[j].input = <<calls[i].out.data[1]>>
          /\ \A i \in FailedLater : i = Len(calls) /\ pc = "done"
          /\ (result # None /\ ~result[1].success) => pc = "done")
    /\ [][pc # "done"]_vars

\* the quality check corrected the text and structuring was given the
\* corrected text
C24_Witness ==
    \E j \in CallsOf("structured_data") : \E i \in Succeeded("checker") :
        /\ calls[j].input = <<calls[i].out.data[1]>>
        /\ calls[i].out.data[1] # calls[i].input[1]
        /\ CallsOf("merger") # {}

FaultMessages ==
    {"Connection error.", "'NoneType' object has no attribute 'strip'",
     "object has no attribute 'get'", "Subtotal must be a number",
     "Total must be a number"}
    \cup {"No such file: " \o image_paths[k] : k \in DOMAIN image_paths}

\* the error texts that name a stage
StageErrors(agent) ==
    CASE agent = "transcriber" ->
            {"Transcription failed: " \o m : m \in FaultMessages}
      [] agent = "merger" ->
            {"Text merging failed: " \o m : m \in FaultMessages}
      [] agent = "checker" ->
            {"Quality check failed: " \o m : m \in FaultMessages}
      [] agent = "structured_data" ->
            {"Structured data formatting failed: " \o m : m \in FaultMessages}
            \cup {"Failed to parse JSON response"}

Faulted == {i \in DOMAIN calls : ~calls[i].out.success}

\* C25 as stated: a failing pipeline result carries the error of the first
\* stage call that failed in the run, and the error text names that stage.
C25_FirstFaultIsReturned ==
    (Returns /\ ~result[1].success)
    => /\ Faulted # {}
       /\ LET first == CHOOSE i \in Faulted : \A k \in Faulted : i <= k
          IN  /\ result[1].error = calls[first].out.error
              /\ result[1].error[1] \in StageErrors(calls[first].agent)

\* C25 amended: a failing pipeline result is the unchanged result of the
\* one failed merge, quality-check or structuring call, with that stage's
\* error text; or "No successful transcriptions" when every image failed;
\* or "No receipt images found in folder" or "Processing pipeline failed:
\* ..." when no stage was called.
C25_FailureNamesItsOrigin ==
    (Returns /\ ~result[1].success)
    => \/ /\ calls = <<>>
          /\ result[1].error[1] \in
                {"No receipt images found in folder",
                 "Processing pipeline failed: Permission denied"}
       \/ /\ FanOutOver
          /\ Faulted = DOMAIN calls
          /\ \A i \in DOMAIN calls :
                /\ calls[i].agent = "transcriber"
                /\ calls[i].out.error[1] \in StageErrors("transcriber")
          /\ result[1].error = Some("No successful transcriptions")
       \/ /\ FailedLater = {Len(calls)}
          /\ result = Some(calls[Len(calls)].out)
          /\ result[1].error[1] \in StageErrors(calls[Len(calls)].agent)

\* an image failed to transcribe, and the run failed later in the quality
\* check, whose error is the result's
C25_Witness ==
    /\ Returns
    /\ Failed("transcriber") # {}
    /\ Failed("checker") # {}
    /\ result[1].error = Some("Quality check failed: Connection error.")

\* the scores of the alias-table spellings for a trimmed raw name, in the
\* order the loop meets them
AliasScores(store) ==
    LET cands == AllCandidates(1)
    IN  Scored(store, [i \in 1..Len(cands) |-> cands[i].name] \o <<>>)

\* the places, in loop order, of the spellings that share the highest score
Tied(store) ==
    LET scored == AliasScores(store)
    IN  {i \in 1..Len(scored) :
            \A j \in 1..Len(scored) : scored[j].score <= scored[i].score}

\* the spellings sharing the highest score belong to more than one name
TiedAcrossNames(store) ==
    Cardinality({AllCandidates(1)[i].match : i \in Tied(store)}) > 1

\* C26: when several names or aliases share the highest score for a raw name
\* and that score meets the threshold, normalize_store_name returns the name
\* of the one met first in loop order.
C26_FirstOfTheTiedWins ==
    (NormalizeReturned /\ NonEmptyQuery)
    => LET store == str_strip(query_name[1])
           tied == Tied(store)
           first == CHOOSE i \in tied : \A j \in tied : i <= j
       IN  ( /\ Cardinality(tied) > 1
             /\ AliasScores(store)[first].score >= query_threshold )
           => normalized[1] = Some(AllCandidates(1)[first].match)

\* the same for ties at a score above zero (holds)
C26_PositiveTies ==
    (NormalizeReturned /\ NonEmptyQuery)
    => LET store == str_strip(query_name[1])
           tied == Tied(store)
           first == CHOOSE i \in tied : \A j \in tied : i <= j
       IN  ( /\ Cardinality(tied) > 1
             /\ AliasScores(store)[first].score > 0
             /\ AliasScores(store)[first].score >= query_threshold )
           => normalized[1] = Some(AllCandidates(1)[first].match)

\* "M ar" scores 46 against both "WFM" and "Lunardi"; the earlier name wins
C26_TieSeen ==
    /\ NormalizeReturned
    /\ query_name = Some(<<"M", " ", "a", "r">>)
    /\ query_threshold = 0
    /\ TiedAcrossNames(<<"M", " ", "a", "r">>)
    /\ AliasScores(<<"M", " ", "a", "r">>)[BestIndex(AliasScores(<<"M", " ", "a", "r">>))].score = 46
    /\ normalized[1] = Some(<<"W", "h", "o", "l", "e", " ", "F", "o", "o", "d", "s", " ", "M", "a", "r", "k", "e", "t">>)

\* the importers that have committed, and the raw names of two of them match
\* each other at the default threshold
Committed(p) == importers[p].pc = "committed"
NearDuplicates(p, q) ==
    token_sort_ratio(importers[p].receipt[1].store[1],
                     importers[q].receipt[1].store[1]) >= DefaultThreshold

\* C27: in every interleaving of concurrent imports, two imports whose raw
\* store names match each other at the threshold have the same canonical
\* name once both have committed.
C27_NearDuplicatesShareOneName ==
    \A p, q \in DOMAIN importers :
        (Committed(p) /\ Committed(q) /\ NearDuplicates(p, q))
        => importers[p].receipt[1].store_normalized
             = importers[q].receipt[1].store_normalized

\* C28: after a successful import, no committed Receipt row (with its item
\* and tax rows) was built by a call of import_receipt that raised.
C28_FailedImportsLeaveNoTrace ==
    \A i \in DOMAIN db : dblog[db[i].by].ok

\* every receipt has all the items and taxes of its file, and no two
\* receipts come from the same file
Complete(row) == row.items = ItemsPerFile /\ row.taxes = TaxesPerFile
Clean(table) ==
    /\ \A i \in DOMAIN table : Complete(table[i])
    /\ \A i, j \in DOMAIN table :
          table[i].json_path = table[j].json_path => i = j

\* C29: a successful reimport_receipt leaves the number of receipts as it
\* was, with one receipt per JSON file and every receipt owning all items
\* and taxes of its file (given that this was so before); a failed one
\* leaves the committed rows as they were and nothing pending in the
\* session.
C29_ReimportKeepsReceipts ==
    \A c \in DOMAIN dblog :
        dblog[c].op = "reimport"
        => IF dblog[c].ok
           THEN Clean(dblog[c].before)
                => /\ Len(dblog[c].after) = Len(dblog[c].before)
                   /\ Clean(dblog[c].after)
           ELSE /\ dblog[c].after = dblog[c].before
                /\ dblog[c].left = {}

RunEnded == pc = "saved"
SomeRunSucceeded == \E r \in DOMAIN runs : runs[r].success
Reported == find_unprocessed_receipts(folder, analysis_file)

\* C30 as stated: a run writes the analysis file exactly when the pipeline
\* succeeded; after any runs, a folder whose last run failed has no analysis
\* file and is reported as unprocessed, and a folder with a successful run
\* is not reported.
C30_FailedFolderIsReported ==
    RunEnded
    => /\ \A r \in DOMAIN runs : runs[r].wrote <=> runs[r].success
       /\ ~runs[Len(runs)].success => (~analysis_file /\ Reported)
       /\ SomeRunSucceeded => ~Reported

\* C30 amended: a run writes the analysis file exactly when the pipeline
\* succeeded; the file exists exactly when some run succeeded; the folder is
\* reported as unprocessed exactly when no run succeeded and it holds a
\* .jpg image.
C30_FileIffSomeSuccess ==
    RunEnded
    => /\ \A r \in DOMAIN runs : runs[r].wrote <=> runs[r].success
       /\ analysis_file <=> SomeRunSucceeded
       /\ Reported <=> (~SomeRunSucceeded /\ folder # <<>>)

\* a successful run followed by a failed one: the file stays and the folder
\* is not reported
C30_Witness ==
    /\ RunEnded
    /\ Len(runs) = 2
    /\ runs[1].success /\ runs[1].wrote
    /\ ~runs[2].success /\ ~runs[2].wrote
    /\ analysis_file
    /\ ~Reported

\* a failed run of a folder with an image: no file, reported
C30_FailedRunSeen ==
    /\ RunEnded
    /\ folder # <<>>
    /\ ~SomeRunSucceeded
    /\ ~analysis_file
    /\ Reported

====
